---- MODULE Spec2Model ----
(***************************************************************************)
(* WaypointAnalytics: the paginated order fetcher, the single-resource     *)
(* lookups, the order flattener, the basket aggregator and the time-of-day *)
(* counts of PythonFiles/pull_data_and_analyze.py and PythonFiles/stats.py.*)
(*                                                                         *)
(* Python values are modelled as follows.  A dict is a function whose      *)
(* DOMAIN is the set of keys present; d.get(k, v) is Get(d, k, v) and d[k] *)
(* on an absent key is a KeyError fault.  None is the string "None".  A    *)
(* list or a tuple is a sequence.  An exception that leaves a function     *)
(* unhandled is recorded in the fault variable of that function's part of  *)
(* the state, and the run stops there.                                     *)
(***************************************************************************)
EXTENDS Integers, Sequences, FiniteSets, TLC

VARIABLES
    \* retrieve_all_orders
    location_id, begin_time, end_time,   \* the arguments of the call
    requests,                            \* the bodies sent to fetch, in call order
    responses,                           \* what fetch answered, in call order
    orders,                              \* the accumulator
    cursor,                              \* the cursor held from the prior response
    log,                                 \* what the call printed
    pc,                                  \* "loop", "returned" or "raised"
    fault,                               \* the exception that escaped, or None
    \* the single-resource lookups, script lines 284-287
    lk_pc,                               \* the lookup about to run, "done" or "raised"
    lk_responses,                        \* what fetch answered to the GETs, in call order
    lk_branch,                           \* per GET: "success" or "error", the branch taken
    lk_log,                              \* what the lookups printed
    lk_results,                          \* the values returned, in call order
    lk_fault,                            \* the exception that escaped, or None
    \* orders_to_dataframe and extract_order_items
    fl_orders,                           \* the argument: the orders to reshape
    fl_i,                                \* the orders the for loop has been through
    records,                             \* orders_to_dataframe: the rows so far
    transactions,                        \* extract_order_items: the lists so far
    fl_fault,                            \* the exception that escaped, or None
    \* the pair counter of the script, lines 268-272, run on a list of
    \* transactions and, beside it, on the same list with one order permuted
    pr_transactions,                     \* transactions
    pr_permuted,                         \* the same, the items of one order permuted
    pr_i,                                \* the transactions the for loop has been through
    item_pairs,                          \* the Counter: pair -> count
    item_pairs_permuted,                 \* the Counter of the run on pr_permuted
    set_order,                           \* list -> the order set(list) was iterated in
    \* stats.py 257-267: analyze_pairs, ensure_latte_first, split_latte_pairs
    orders_df,                           \* the rows read from the CSV file
    st_pc,                               \* "analyze", "table", "relabel", "split", "done"
    st_g,                                \* the groups the for loop has been through
    st_item_pairs,                       \* the Counter of analyze_pairs
    pairs_raw,                           \* what analyze_pairs returned
    pairs_df,                            \* pairs_df after line 263
    pairs_df_latte,                      \* line 265
    pairs_df_non_latte,                  \* line 265
    \* stats.py 257-259 and 270: analyze_time_of_day
    tm_cells,                            \* the created_at column of the CSV file
    tm_pc,                               \* "read", "analyze", "done"
    tm_df,                               \* orders_df: the rows and their time columns
    purchases_by_time,                   \* line 78: count by HH:MM
    time_day_df,                         \* line 81: count by day of week, HH:MM
    time_day_year_df                     \* line 84: count by year, day of week, HH:MM

fetchVars == <<location_id, begin_time, end_time, requests, responses, orders,
               cursor, log, pc, fault>>

lookupVars == <<lk_pc, lk_responses, lk_branch, lk_log, lk_results, lk_fault>>

flatVars == <<fl_orders, fl_i, records, transactions, fl_fault>>

pairVars == <<pr_transactions, pr_permuted, pr_i, item_pairs, item_pairs_permuted,
              set_order>>

statVars == <<orders_df, st_pc, st_g, st_item_pairs, pairs_raw, pairs_df,
              pairs_df_latte, pairs_df_non_latte>>

timeVars == <<tm_cells, tm_pc, tm_df, purchases_by_time, time_day_df,
              time_day_year_df>>

vars == <<fetchVars, lookupVars, flatVars, pairVars, statVars, timeVars>>

-----------------------------------------------------------------------------
(* Python values *)

None == "None"

\* d.get(k, dflt)
Get(d, k, dflt) == IF k \in DOMAIN d THEN d[k] ELSE dflt

\* the truth value of an optional string: None and "" are false
Truthy(s) == s # None /\ s # ""

\* the empty dict
EmptyDict == <<>>

-----------------------------------------------------------------------------
(* retrieve_all_orders: pull_data_and_analyze.py 80-126 *)

\* the calls one run may make before the model stops following it
MaxCalls == 3

\* "limit": 500
PageLimit == 500

\* response.status_code == 200
StatusOK == 200

LocationIds == {"ZE934VV8RCWGF", "L2"}
BeginTimes == {None, "2024-09-01T00:00:00Z"}
EndTimes == {None, "2024-09-30T23:59:59Z"}

\* the orders of one page: the key may be absent, the list may be empty
Pages == {<<>>, <<"o1">>, <<"o2">>, <<"o1", "o2">>}
CursorValues == {"", "c1", "c2"}

\* the JSON bodies of a successful search
SearchBodies ==
    {[orders |-> p, cursor |-> c] : p \in Pages, c \in CursorValues}
        \cup {[orders |-> p] : p \in Pages}
        \cup {[cursor |-> c] : c \in CursorValues}
        \cup {EmptyDict}

\* what the fetch capability may answer to a search
SearchResponses ==
    {[status_code |-> StatusOK, json |-> b, text |-> "ok"] : b \in SearchBodies}
        \cup {[status_code |-> s, json |-> EmptyDict, text |-> "error body"] :
                s \in {201, 500}}

\* lines 87-107: the request body
SearchBody(loc, bt, et, cur) ==
    LET base == [location_ids |-> <<loc>>, limit |-> PageLimit]
        dated == IF Truthy(bt) /\ Truthy(et)
                 THEN [location_ids |-> <<loc>>, limit |-> PageLimit,
                       query |-> [filter |-> [date_time_filter |->
                           [created_at |-> [start_at |-> bt, end_at |-> et]]]]]
                 ELSE base
    IN  IF Truthy(cur)
        THEN [k \in DOMAIN dated \cup {"cursor"} |->
                 IF k = "cursor" THEN cur ELSE dated[k]]
        ELSE dated

\* line 112: the status test of the search loop
SearchSucceeded(response) == response.status_code = StatusOK

\* line 114: orders.extend(result.get('orders', []))
Extend(acc, result) == acc \o Get(result, "orders", <<>>)

\* line 115: print(orders[-1]) raises IndexError on an empty list
LastRaises(acc) == acc = <<>>

\* line 119: if not cursor: break
LoopContinues(cur) == Truthy(cur)

InitFetch ==
    /\ location_id \in LocationIds
    /\ begin_time \in BeginTimes
    /\ end_time \in EndTimes
    /\ requests = <<>>
    /\ responses = <<>>
    /\ orders = <<>>
    /\ cursor = None
    /\ log = <<>>
    /\ pc = "loop"
    /\ fault = None

\* one pass of the while loop, lines 85-124
SearchOrders ==
    /\ pc = "loop"
    /\ Len(requests) < MaxCalls
    /\ \E response \in SearchResponses :
        LET body == SearchBody(location_id, begin_time, end_time, cursor)
            acc == Extend(orders, response.json)
            next == Get(response.json, "cursor", None)
        IN  /\ requests' = Append(requests, body)
            /\ responses' = Append(responses, response)
            /\ IF SearchSucceeded(response)
               THEN /\ orders' = acc
                    /\ IF LastRaises(acc)
                       THEN /\ fault' = "IndexError"
                            /\ pc' = "raised"
                            /\ UNCHANGED <<cursor, log>>
                       ELSE /\ log' = Append(log, acc[Len(acc)])
                            /\ cursor' = next
                            /\ pc' = IF LoopContinues(next) THEN "loop" ELSE "returned"
                            /\ UNCHANGED fault
               ELSE /\ log' = log \o <<"Error retrieving orders", response.text>>
                    /\ pc' = "returned"
                    /\ UNCHANGED <<orders, cursor, fault>>
    /\ UNCHANGED <<location_id, begin_time, end_time>>

-----------------------------------------------------------------------------
(* Money: an integer amount of minor units divided by 100 *)

\* amount / 100: the decimal number of major units, as units and hundredths
ToMajor(amount) == [units |-> amount \div 100, cents |-> amount % 100]

-----------------------------------------------------------------------------
(* retrieve_customers, retrieve_payments, get_orders_from_payment:         *)
(* pull_data_and_analyze.py 9-77, called in this order by lines 284-287    *)

\* "if idx == 10: break"
PrintLimit == 10

Min(a, b) == IF a <= b THEN a ELSE b

LookupStatuses == {200, 201, 404, 500}

Customer == [id |-> "C1", given_name |-> "Ada"]
Payment == [id |-> "P1", status |-> "COMPLETED",
            amount_money |-> [amount |-> 450, currency |-> "USD"]]
LineItem == [name |-> "Latte", variation_name |-> "Regular", quantity |-> "2"]

CustomerBodies ==
    { EmptyDict,
      [customers |-> <<>>],
      [customers |-> <<Customer>>],
      [customers |-> [i \in 1..(PrintLimit + 1) |-> Customer]],
      [customers |-> <<Customer, [given_name |-> "Bob"]>>] }

PaymentsBodies ==
    { EmptyDict,
      [payments |-> <<Payment>>],
      [payments |-> [i \in 1..(PrintLimit + 1) |-> Payment]],
      [payments |-> <<Payment, [id |-> "P2", status |-> "FAILED"]>>] }

PaymentBodies ==
    { EmptyDict,
      [payment |-> [id |-> "P1", order_id |-> "O1"]],
      [payment |-> [id |-> "P1"]] }

OrderBodies ==
    { EmptyDict,
      [order |-> [id |-> "O1"]],
      [order |-> [id |-> "O1", line_items |-> <<LineItem, LineItem>>]],
      [order |-> [id |-> "O1", line_items |-> <<LineItem, [name |-> "Tip"]>>]] }

\* what the fetch capability may answer to a GET: a 200 with one of the
\* bodies, or another status with an error text
LookupResponses(bodies) ==
    {[status_code |-> 200, json |-> b, text |-> "ok"] : b \in bodies}
        \cup {[status_code |-> s, json |-> EmptyDict, text |-> "error body"] :
                s \in LookupStatuses \ {200}}

\* lines 13, 33, 56, 63: the status test of the lookups
LookupSucceeded(response) == response.status_code = 200

\* a for loop that prints one line per element and stops at index stop
\* (0 for no stop): missing[i] says that element i lacks a key the line reads,
\* which raises KeyError there
PrintLoop(lines, missing, stop) ==
    LET lim == IF stop = 0 THEN Len(lines) ELSE Min(Len(lines), stop)
        bad == {i \in 1..lim : missing[i]}
        first == IF bad = {} THEN 0
                 ELSE CHOOSE i \in bad : \A j \in bad : i <= j
        shown == IF first = 0 THEN lim ELSE first - 1
    IN  [log |-> [i \in 1..shown |-> lines[i]],
         fault |-> IF first = 0 THEN None ELSE "KeyError"]

\* line 21
CustomerLine(c) ==
    [line |-> "Customer", id |-> Get(c, "id", None),
     name |-> <<Get(c, "given_name", ""), Get(c, "family_name", "")>>]

\* lines 41-43
PaymentLine(p) ==
    LET money == Get(p, "amount_money", EmptyDict) IN
    [line |-> "Payment", id |-> Get(p, "id", None),
     amount |-> ToMajor(Get(money, "amount", 0)),
     currency |-> Get(money, "currency", None),
     status |-> Get(p, "status", None)]

PaymentLacksKey(p) ==
    \/ {"id", "status", "amount_money"} \ DOMAIN p # {}
    \/ {"amount", "currency"} \ DOMAIN p.amount_money # {}

\* line 69
ItemLine(item) ==
    [line |-> "Item", name |-> Get(item, "name", None),
     variation |-> Get(item, "variation_name", None),
     quantity |-> Get(item, "quantity", None)]

ItemLacksKey(item) == {"name", "variation_name", "quantity"} \ DOMAIN item # {}

\* a function body's outcome: what it printed, what it returned (<<v>>, or
\* <<>> when it raised) and the exception that escaped
Returned(lines, value) == [log |-> lines, ret |-> <<value>>, fault |-> None]
Raised(lines, exc) == [log |-> lines, ret |-> <<>>, fault |-> exc]

ErrorLines(what, response) ==
    <<[line |-> what, status |-> response.status_code], [line |-> response.text]>>

\* line 26, 48, 77: "return result" where the error branch never bound it
ReturnUnbound(lines) == Raised(lines, "UnboundLocalError")

\* retrieve_customers, lines 9-26
retrieve_customers(response) ==
    IF LookupSucceeded(response)
    THEN LET result == response.json
             head == <<[line |-> "result"]>>
         IN  IF "customers" \in DOMAIN result
             THEN LET cs == result.customers
                      loop == PrintLoop([i \in 1..Len(cs) |-> CustomerLine(cs[i])],
                                        [i \in 1..Len(cs) |-> "id" \notin DOMAIN cs[i]],
                                        PrintLimit)
                  IN  IF loop.fault = None
                      THEN Returned(head \o loop.log, result)
                      ELSE Raised(head \o loop.log, loop.fault)
             ELSE Returned(head, result)
    ELSE ReturnUnbound(ErrorLines("Error retrieving customers", response))

\* retrieve_payments, lines 29-48
retrieve_payments(response) ==
    IF LookupSucceeded(response)
    THEN LET result == response.json
             head == <<[line |-> "result"]>>
         IN  IF "payments" \in DOMAIN result
             THEN LET ps == result.payments
                      loop == PrintLoop([i \in 1..Len(ps) |-> PaymentLine(ps[i])],
                                        [i \in 1..Len(ps) |-> PaymentLacksKey(ps[i])],
                                        PrintLimit)
                  IN  IF loop.fault = None
                      THEN Returned(head \o loop.log, result)
                      ELSE Raised(head \o loop.log, loop.fault)
             ELSE Returned(head, result)
    ELSE ReturnUnbound(ErrorLines("Error retrieving payments", response))

\* get_orders_from_payment, lines 54-58 and 73-77: the payment lookup.  The
\* outcome has no ret and no fault when the order lookup is still to come.
PaymentLookup(payment_response) ==
    IF LookupSucceeded(payment_response)
    THEN LET payment_data == payment_response.json IN
         IF "payment" \in DOMAIN payment_data
                /\ "order_id" \in DOMAIN payment_data.payment
         THEN [log |-> <<>>, ret |-> <<>>, fault |-> None]
         ELSE Raised(<<>>, "KeyError")
    ELSE ReturnUnbound(ErrorLines("Error retrieving payment", payment_response))

\* get_orders_from_payment, lines 61-72 and 77: the order lookup
OrderLookup(order_response) ==
    IF LookupSucceeded(order_response)
    THEN LET order_data == order_response.json IN
         IF "order" \notin DOMAIN order_data
         THEN Raised(<<>>, "KeyError")
         ELSE IF "line_items" \in DOMAIN order_data.order
         THEN LET items == order_data.order.line_items
                  loop == PrintLoop([i \in 1..Len(items) |-> ItemLine(items[i])],
                                    [i \in 1..Len(items) |-> ItemLacksKey(items[i])],
                                    0)
              IN  IF loop.fault = None
                  THEN Returned(loop.log, order_data)
                  ELSE Raised(loop.log, loop.fault)
         ELSE Returned(<<>>, order_data)
    ELSE ReturnUnbound(ErrorLines("Error retrieving order", order_response))

Branch(response) == IF LookupSucceeded(response) THEN "success" ELSE "error"

InitLookup ==
    /\ lk_pc = "customers"
    /\ lk_responses = <<>>
    /\ lk_branch = <<>>
    /\ lk_log = <<>>
    /\ lk_results = <<>>
    /\ lk_fault = None

\* the state after one GET and the rest of the function that sent it
LookupStep(response, out, then) ==
    /\ lk_responses' = Append(lk_responses, response)
    /\ lk_branch' = Append(lk_branch, Branch(response))
    /\ lk_log' = lk_log \o out.log
    /\ lk_results' = lk_results \o out.ret
    /\ lk_fault' = out.fault
    /\ lk_pc' = IF out.fault = None THEN then ELSE "raised"

\* line 284
RetrieveCustomers ==
    /\ lk_pc = "customers"
    /\ \E response \in LookupResponses(CustomerBodies) :
        LookupStep(response, retrieve_customers(response), "payments")

\* line 285
RetrievePayments ==
    /\ lk_pc = "payments"
    /\ \E response \in LookupResponses(PaymentsBodies) :
        LookupStep(response, retrieve_payments(response), "payment")

\* line 287, first request
GetPayment ==
    /\ lk_pc = "payment"
    /\ \E response \in LookupResponses(PaymentBodies) :
        LookupStep(response, PaymentLookup(response), "order")

\* line 287, second request
GetOrder ==
    /\ lk_pc = "order"
    /\ \E response \in LookupResponses(OrderBodies) :
        LookupStep(response, OrderLookup(response), "done")

-----------------------------------------------------------------------------
(* orders_to_dataframe: pull_data_and_analyze.py 181-227 *)

\* the orders of one call and the line items of one order
MaxOrders == 2
MaxItems == 2

\* an optional number: a DataFrame cell that holds a number or None
Nothing == <<>>
Just(v) == <<v>>

\* all sequences over S of length at most n
SeqsUpTo(S, n) == UNION {[1..k -> S] : k \in 0..n}

\* line items as the platform sends them: quantity is a decimal string, the
\* money fields are optional
Latte == [catalog_object_id |-> "CAT1", name |-> "Latte",
          variation_name |-> "Regular", quantity |-> "2",
          base_price_money |-> [amount |-> 450],
          total_money |-> [amount |-> 900]]
Muffin == [name |-> "Muffin", quantity |-> "1",
           base_price_money |-> EmptyDict]
ApiItems == {Latte, Muffin}

\* the order-level money field: absent, without an amount, or an amount
OrderMoney == {EmptyDict, [total_money |-> EmptyDict],
               [total_money |-> [amount |-> 1800]]}

\* the id of the k-th order of the input: each order is delivered once
OrderId(k) == IF k = 1 THEN "o1" ELSE IF k = 2 THEN "o2" ELSE "o3"

\* dict union, the right operand winning
Merge(d, e) ==
    [k \in DOMAIN d \cup DOMAIN e |-> IF k \in DOMAIN e THEN e[k] ELSE d[k]]

\* the orders built from a set of line items: with or without the key
\* line_items, with each of the money fields
OrdersOver(items) ==
    {Merge(m, l) :
        m \in OrderMoney,
        l \in {EmptyDict} \cup {[line_items |-> li] : li \in SeqsUpTo(items, MaxItems)}}

\* the inputs: sequences of orders, the k-th one carrying OrderId(k)
OrderLists(items) ==
    {[k \in DOMAIN os |-> Merge(os[k], [id |-> OrderId(k), state |-> "COMPLETED"])] :
        os \in SeqsUpTo(OrdersOver(items), MaxOrders)}

\* x.get('..._money', {}).get('amount', 0) / 100
MoneyOf(d, field) == ToMajor(Get(Get(d, field, EmptyDict), "amount", 0))

\* lines 185-189: the order-level fields of a row
OrderFields(order) ==
    [order_id |-> Get(order, "id", None),
     location_id |-> Get(order, "location_id", None),
     created_at |-> Get(order, "created_at", None),
     updated_at |-> Get(order, "updated_at", None),
     state |-> Get(order, "state", None)]

\* a slip in line 206: the row takes the order's total, not the line item's
ItemRow_OrderTotal(order, item) ==
    Merge(OrderFields(order),
          [item_id |-> Get(item, "catalog_object_id", None),
           item_name |-> Get(item, "name", None),
           variation_name |-> Get(item, "variation_name", None),
           quantity |-> Get(item, "quantity", None),
           base_price |-> Just(MoneyOf(item, "base_price_money")),
           total_money |-> Just(MoneyOf(order, "total_money"))])

\* lines 195-207: the row of one line item
ItemRow(order, item) ==
    Merge(OrderFields(order),
          [item_id |-> Get(item, "catalog_object_id", None),
           item_name |-> Get(item, "name", None),
           variation_name |-> Get(item, "variation_name", None),
           quantity |-> Get(item, "quantity", None),
           base_price |-> Just(MoneyOf(item, "base_price_money")),
           total_money |-> Just(MoneyOf(item, "total_money"))])

\* lines 212-224: the row of an order without line items
FallbackRow(order) ==
    Merge(OrderFields(order),
          [item_id |-> None,
           item_name |-> None,
           variation_name |-> None,
           quantity |-> None,
           base_price |-> Nothing,
           total_money |-> Just(MoneyOf(order, "total_money"))])

\* a slip in lines 209-225: an order without line items gives no row
OrderRows_NoFallback(order) ==
    LET line_items == Get(order, "line_items", <<>>) IN
    [i \in 1..Len(line_items) |-> ItemRow(order, line_items[i])]

\* lines 192-225: the rows of one order
OrderRows(order) ==
    LET line_items == Get(order, "line_items", <<>>) IN
    IF line_items # <<>>
    THEN [i \in 1..Len(line_items) |-> ItemRow(order, line_items[i])]
    ELSE <<FallbackRow(order)>>

InitFlatten ==
    /\ fl_orders \in OrderLists(ApiItems)
    /\ fl_i = 0
    /\ records = <<>>
    /\ transactions = <<>>
    /\ fl_fault = None

\* one pass of the for loop of orders_to_dataframe, lines 184-225
FlattenOrder ==
    /\ fl_i < Len(fl_orders)
    /\ fl_fault = None
    /\ fl_i' = fl_i + 1
    /\ records' = records \o OrderRows(fl_orders[fl_i + 1])
    /\ UNCHANGED <<fl_orders, transactions, fl_fault>>

-----------------------------------------------------------------------------
(* extract_order_items: pull_data_and_analyze.py 166-178 *)

\* the decimal strings int() accepts, among the quantities of the model
IntLiterals == {"0", "1", "2", "3"}

\* int(s)
IntOf(s) == CASE s = "0" -> 0 [] s = "1" -> 1 [] s = "2" -> 2 [] s = "3" -> 3

\* [item_name] * quantity
Repeat(name, n) == [i \in 1..n |-> name]

\* line items that carry the key the function reads, item_name
NamedLatte == [item_name |-> "Latte", name |-> "Latte", quantity |-> "2"]
NamedMuffin == [item_name |-> "Muffin"]
NamedWater == [item_name |-> "Water", quantity |-> "0"]
NamedBeans == [item_name |-> "Beans", quantity |-> "1.5"]

ExtractItems == ApiItems \cup {NamedLatte, NamedMuffin, NamedWater, NamedBeans}

\* lines 173-175 for one line item: the names it adds, or the exception
ExpandItem(item) ==
    IF "item_name" \notin DOMAIN item
    THEN [names |-> <<>>, fault |-> "KeyError"]
    ELSE LET quantity == Get(item, "quantity", "1") IN
         IF quantity \notin IntLiterals
         THEN [names |-> <<>>, fault |-> "ValueError"]
         ELSE [names |-> Repeat(item.item_name, IntOf(quantity)), fault |-> None]

RECURSIVE ExpandItems(_)
\* lines 171-175: the for loop over the line items of one order
ExpandItems(line_items) ==
    IF line_items = <<>>
    THEN [names |-> <<>>, fault |-> None]
    ELSE LET head == ExpandItem(Head(line_items)) IN
         IF head.fault # None
         THEN head
         ELSE LET rest == ExpandItems(Tail(line_items)) IN
              [names |-> head.names \o rest.names, fault |-> rest.fault]

\* lines 176-177: an empty expansion adds no list
AppendIfAny(lists, items_in_order) ==
    IF items_in_order # <<>> THEN Append(lists, items_in_order) ELSE lists

InitExtract ==
    /\ fl_orders \in OrderLists(ExtractItems)
    /\ fl_i = 0
    /\ records = <<>>
    /\ transactions = <<>>
    /\ fl_fault = None

\* one pass of the for loop of extract_order_items, lines 169-177
ExtractOrder ==
    /\ fl_i < Len(fl_orders)
    /\ fl_fault = None
    /\ LET out == ExpandItems(Get(fl_orders[fl_i + 1], "line_items", <<>>)) IN
        /\ fl_fault' = out.fault
        /\ transactions' = IF out.fault = None
                           THEN AppendIfAny(transactions, out.names)
                           ELSE transactions
    /\ fl_i' = fl_i + 1
    /\ UNCHANGED <<fl_orders, records>>

-----------------------------------------------------------------------------
(* item_pairs: pull_data_and_analyze.py 268-272 *)

\* the transactions of one run and the items of one transaction
MaxTransactions == 2
MaxNames == 3

ItemNames == {"Latte", "Muffin", "Scone"}

\* the lists extract_order_items returns are never empty
NameLists == SeqsUpTo(ItemNames, MaxNames) \ {<<>>}

Range(f) == {f[i] : i \in DOMAIN f}

\* the rearrangements of a list
Permutations_(list) ==
    LET n == Len(list) IN
    {[i \in 1..n |-> list[p[i]]] :
        p \in {q \in [1..n -> 1..n] : \A i, j \in 1..n : q[i] = q[j] => i = j}}

\* set(items), iterated: the order in which a Python set yields its elements
\* is fixed by the hash seed of the process, the table's size and the
\* insertions made, not by the elements alone.  So every order of the
\* distinct names is an outcome, and within one process the same list of
\* insertions gives the same order again.
Enumerations(items) ==
    LET S == Range(items) IN
    {e \in [1..Cardinality(S) -> S] : \A i, j \in DOMAIN e : e[i] = e[j] => i = j}

\* the orders set(items) may be iterated in, given those seen so far
SetOrders(seen, items) ==
    IF items \in DOMAIN seen THEN {seen[items]} ELSE Enumerations(items)

\* seen, with the order e of set(items) remembered
Remember(seen, items, e) ==
    [l \in DOMAIN seen \cup {items} |-> IF l = items THEN e ELSE seen[l]]

RECURSIVE Combinations2(_)
\* combinations(e, 2): the pairs (e[i], e[j]) with i < j, in the order
\* itertools yields them
Combinations2(e) ==
    IF Len(e) < 2 THEN <<>>
    ELSE [j \in 1..(Len(e) - 1) |-> <<e[1], e[j + 1]>>] \o Combinations2(Tail(e))

\* a Counter is a dict, which keeps its keys in insertion order: the
\* sequence of its entries
EmptyCounter == <<>>

Keys(counter) == {counter[i].pair : i \in DOMAIN counter}

\* counter[key], 0 for a key never counted
CountOf(counter, key) ==
    IF key \in Keys(counter)
    THEN (CHOOSE entry \in Range(counter) : entry.pair = key).count
    ELSE 0

\* counter[key] += 1
Increment(counter, key) ==
    IF key \in Keys(counter)
    THEN [i \in DOMAIN counter |->
            IF counter[i].pair = key
            THEN [pair |-> key, count |-> counter[i].count + 1]
            ELSE counter[i]]
    ELSE Append(counter, [pair |-> key, count |-> 1])

RECURSIVE CountPairs(_, _)
\* counter[pair] += 1 for each pair of pairs, in turn
CountPairs(counter, pairs) ==
    IF pairs = <<>> THEN counter
    ELSE CountPairs(Increment(counter, Head(pairs)), Tail(pairs))

\* Counter equality: the same keys with the same counts
SameCounts(c, d) ==
    /\ Keys(c) = Keys(d)
    /\ \A key \in Keys(c) : CountOf(c, key) = CountOf(d, key)

InitPairs ==
    /\ pr_transactions \in SeqsUpTo(NameLists, MaxTransactions)
    /\ \E k \in DOMAIN pr_transactions :
         \E list \in Permutations_(pr_transactions[k]) :
            pr_permuted = [pr_transactions EXCEPT ![k] = list]
    /\ pr_i = 0
    /\ item_pairs = EmptyCounter
    /\ item_pairs_permuted = EmptyCounter
    /\ set_order = <<>>

\* one pass of the for loop of lines 269-272, in each of the two runs
CountTransaction ==
    /\ pr_i < Len(pr_transactions)
    /\ LET items == pr_transactions[pr_i + 1]
           permuted == pr_permuted[pr_i + 1]
       IN  \E e \in SetOrders(set_order, items) :
             \E f \in SetOrders(Remember(set_order, items, e), permuted) :
                /\ item_pairs' = CountPairs(item_pairs, Combinations2(e))
                /\ item_pairs_permuted' =
                      CountPairs(item_pairs_permuted, Combinations2(f))
                /\ set_order' =
                      Remember(Remember(set_order, items, e), permuted, f)
    /\ pr_i' = pr_i + 1
    /\ UNCHANGED <<pr_transactions, pr_permuted>>

-----------------------------------------------------------------------------
(* analyze_pairs, ensure_latte_first, contains_latte, split_latte_pairs:   *)
(* stats.py 12-61, run by lines 257-267                                    *)

\* the rows of the CSV file
MaxRows == 4

\* the order ids of the file, in groupby's sorted order
OrderIds == <<"o1", "o2">>

\* a row of orders_df: item_name is None in the row of an order without
\* line items
CsvRows == [order_id : Range(OrderIds), item_name : ItemNames \cup {None}]

IsPresent(id) == \E i \in DOMAIN orders_df : orders_df[i].order_id = id

\* df.groupby('order_id'): the keys present, sorted
GroupKeys == SelectSeq(OrderIds, IsPresent)

RECURSIVE GroupNames(_, _)
\* line 22: group['item_name'].dropna().tolist() for the group of id, over
\* the rows of df in row order
GroupNames(df, id) ==
    IF df = <<>> THEN <<>>
    ELSE LET row == Head(df)
             rest == GroupNames(Tail(df), id)
         IN  IF row.order_id = id /\ row.item_name # None
             THEN <<row.item_name>> \o rest
             ELSE rest

\* line 31: pd.DataFrame(item_pairs.items(), columns=['pair', 'count']); the
\* rows carry the index labels 0, 1, ... of their creation
PairsFrame(counter) ==
    [i \in DOMAIN counter |->
        [index |-> i - 1, pair |-> counter[i].pair, count |-> counter[i].count]]

\* line 34: sort_values(by='count', ascending=False): the rows in
\* non-increasing count, rows of equal count in any order
SortedByCount(df) ==
    {t \in Permutations_(df) :
        \A i, j \in DOMAIN t : i < j => t[i].count >= t[j].count}

\* the anchor item
Anchor == "Latte"

\* a slip in line 42: the anchor is looked for in first position
ensure_latte_first_WrongSide(pair) ==
    IF pair[1] = Anchor THEN <<pair[2], pair[1]>> ELSE pair

\* stats.py 39-44
ensure_latte_first(pair) ==
    LET item1 == pair[1]
        item2 == pair[2]
    IN  IF item2 = Anchor THEN <<item2, item1>> ELSE pair

\* stats.py 47-50
contains_latte(pair) ==
    LET item1 == pair[1]
        item2 == pair[2]
    IN  Anchor \in {item1, item2}

\* line 263: pairs_df['pair'] = pairs_df['pair'].apply(ensure_latte_first)
ApplyToPairs(df) ==
    [i \in DOMAIN df |->
        [index |-> df[i].index, pair |-> ensure_latte_first(df[i].pair),
         count |-> df[i].count]]

\* df[mask]: the rows whose mask is true, in row order
RowContainsLatte(row) == contains_latte(row.pair)
RowLacksLatte(row) == ~contains_latte(row.pair)

\* a slip in line 58: the negation of the mask is lost
split_latte_pairs_NoNegation(df) ==
    [latte_df |-> SelectSeq(df, RowContainsLatte),
     non_latte_df |-> SelectSeq(df, RowContainsLatte)]

\* stats.py 53-61
split_latte_pairs(df) ==
    [latte_df |-> SelectSeq(df, RowContainsLatte),
     non_latte_df |-> SelectSeq(df, RowLacksLatte)]

InitStats ==
    /\ orders_df \in SeqsUpTo(CsvRows, MaxRows)
    /\ st_pc = "analyze"
    /\ st_g = 0
    /\ st_item_pairs = EmptyCounter
    /\ pairs_raw = <<>>
    /\ pairs_df = <<>>
    /\ pairs_df_latte = <<>>
    /\ pairs_df_non_latte = <<>>

\* analyze_pairs: one pass of the for loop, lines 20-28
AnalyzeGroup ==
    /\ st_pc = "analyze"
    /\ st_g < Len(GroupKeys)
    /\ LET items_in_order == GroupNames(orders_df, GroupKeys[st_g + 1]) IN
       IF Len(items_in_order) >= 2
       THEN \E e \in SetOrders(set_order, items_in_order) :
               /\ st_item_pairs' = CountPairs(st_item_pairs, Combinations2(e))
               /\ set_order' = Remember(set_order, items_in_order, e)
       ELSE UNCHANGED <<st_item_pairs, set_order>>
    /\ st_g' = st_g + 1
    /\ UNCHANGED <<orders_df, st_pc, pairs_raw, pairs_df, pairs_df_latte,
                   pairs_df_non_latte>>

\* analyze_pairs: lines 31-36, the table, sorted and returned
ReturnPairs ==
    /\ st_pc = "analyze"
    /\ st_g = Len(GroupKeys)
    /\ pairs_raw' \in SortedByCount(PairsFrame(st_item_pairs))
    /\ st_pc' = "relabel"
    /\ UNCHANGED <<orders_df, st_g, st_item_pairs, pairs_df, pairs_df_latte,
                   pairs_df_non_latte, set_order>>

\* line 263
RelabelPairs ==
    /\ st_pc = "relabel"
    /\ pairs_df' = ApplyToPairs(pairs_raw)
    /\ st_pc' = "split"
    /\ UNCHANGED <<orders_df, st_g, st_item_pairs, pairs_raw, pairs_df_latte,
                   pairs_df_non_latte, set_order>>

\* line 265
SplitPairs ==
    /\ st_pc = "split"
    /\ LET out == split_latte_pairs(pairs_df) IN
        /\ pairs_df_latte' = out.latte_df
        /\ pairs_df_non_latte' = out.non_latte_df
    /\ st_pc' = "done"
    /\ UNCHANGED <<orders_df, st_g, st_item_pairs, pairs_raw, pairs_df, set_order>>

-----------------------------------------------------------------------------
(* analyze_time_of_day: stats.py 64-86, run by lines 257-259 and 270       *)
(*                                                                         *)
(* A created_at cell of the file is Nothing when the cell is empty, and    *)
(* else Just of what it holds: the fields of an ISO-8601 UTC timestamp     *)
(* (year, month, day, hour, minute) or some other text.  A timestamp is    *)
(* the number of minutes from 2023-01-01T00:00Z, a Sunday; NaT and NaN are *)
(* Nothing.                                                                *)

\* the rows of the CSV file given to analyze_time_of_day
MaxTimeRows == 3

Years == 2023..2025

IsLeap(y) == y % 4 = 0 /\ (y % 100 # 0 \/ y % 400 = 0)

DaysInMonth(y, mo) ==
    IF mo = 2 THEN (IF IsLeap(y) THEN 29 ELSE 28)
    ELSE IF mo \in {4, 6, 9, 11} THEN 30 ELSE 31

DaysInYear(y) == IF IsLeap(y) THEN 366 ELSE 365

RECURSIVE DaysBeforeYear(_)
DaysBeforeYear(y) ==
    IF y <= 2023 THEN 0 ELSE DaysBeforeYear(y - 1) + DaysInYear(y - 1)

RECURSIVE DaysBeforeMonth(_, _)
DaysBeforeMonth(y, mo) ==
    IF mo <= 1 THEN 0 ELSE DaysBeforeMonth(y, mo - 1) + DaysInMonth(y, mo - 1)

MinutesPerDay == 1440

\* the timestamp of year-month-day hour:minute
Instant(y, mo, d, h, mi) ==
    (DaysBeforeYear(y) + DaysBeforeMonth(y, mo) + (d - 1)) * MinutesPerDay
        + h * 60 + mi

\* what a created_at cell of the file may hold
TimeCells ==
    { Nothing,
      Just([text |-> "not a date"]),
      Just([year |-> 2024, month |-> 2, day |-> 30, hour |-> 10, minute |-> 30]),
      Just([year |-> 2024, month |-> 1, day |-> 1, hour |-> 3, minute |-> 30]),
      Just([year |-> 2024, month |-> 1, day |-> 1, hour |-> 15, minute |-> 30]),
      Just([year |-> 2024, month |-> 7, day |-> 1, hour |-> 14, minute |-> 30]),
      Just([year |-> 2023, month |-> 7, day |-> 3, hour |-> 14, minute |-> 30]) }

TimeColumns == SeqsUpTo(TimeCells, MaxTimeRows)

\* whether a cell parses as an ISO-8601 timestamp
IsIso8601(cell) ==
    /\ cell # Nothing
    /\ DOMAIN cell[1] = {"year", "month", "day", "hour", "minute"}
    /\ cell[1].year \in Years
    /\ cell[1].month \in 1..12
    /\ cell[1].day \in 1..DaysInMonth(cell[1].year, cell[1].month)
    /\ cell[1].hour \in 0..23
    /\ cell[1].minute \in 0..59

\* line 259: pd.to_datetime(..., format='ISO8601', utc=True, errors='coerce')
\* of one cell: a cell that does not parse is coerced to NaT
ToDatetime(cell) ==
    IF IsIso8601(cell)
    THEN Just(Instant(cell[1].year, cell[1].month, cell[1].day,
                      cell[1].hour, cell[1].minute))
    ELSE Nothing

\* US/Eastern: daylight time runs from the second Sunday of March, 07:00
\* UTC, to the first Sunday of November, 06:00 UTC
DaylightStart == [y \in Years |->
    Instant(y, 3, (IF y = 2023 THEN 12 ELSE IF y = 2024 THEN 10 ELSE 9), 7, 0)]

DaylightEnd == [y \in Years |->
    Instant(y, 11, (IF y = 2023 THEN 5 ELSE IF y = 2024 THEN 3 ELSE 2), 6, 0)]

\* minutes US/Eastern is behind UTC at a timestamp
EasternOffset(t) ==
    IF \E y \in Years : DaylightStart[y] <= t /\ t < DaylightEnd[y]
    THEN 240 ELSE 300

\* line 66: .dt.tz_convert('US/Eastern'): the wall clock of the timestamp
\* in US/Eastern, as minutes from 2023-01-01T00:00 local; NaT stays NaT
tz_convert(ts) ==
    IF ts = Nothing THEN Nothing ELSE Just(ts[1] - EasternOffset(ts[1]))

\* line 69: .dt.strftime('%H:%M'); NaN for NaT
strftime(local) ==
    IF local = Nothing THEN Nothing
    ELSE Just(<<(local[1] % MinutesPerDay) \div 60, (local[1] % MinutesPerDay) % 60>>)

DayNames == <<"Sunday", "Monday", "Tuesday", "Wednesday", "Thursday",
              "Friday", "Saturday">>

\* line 72: .dt.day_name(); NaN for NaT
day_name(local) ==
    IF local = Nothing THEN Nothing
    ELSE Just(DayNames[((local[1] \div MinutesPerDay) % 7) + 1])

RECURSIVE YearOfDay(_, _)
\* the year a day falls in, the day counted from the first day of year y
YearOfDay(day, y) ==
    IF day < 0 THEN y - 1
    ELSE IF day < DaysInYear(y) THEN y
    ELSE YearOfDay(day - DaysInYear(y), y + 1)

\* line 75: .dt.year; NaN for NaT
year(local) ==
    IF local = Nothing THEN Nothing
    ELSE Just(YearOfDay(local[1] \div MinutesPerDay, 2023))

\* lines 66-75: the columns analyze_time_of_day adds to a row
WithTimeColumns(row) ==
    LET et == tz_convert(row.created_at) IN
    [created_at |-> row.created_at,
     created_at_et |-> et,
     time_et |-> strftime(et),
     day_of_week |-> day_name(et),
     year_et |-> year(et)]

\* the key of a row under a list of columns
GroupKey(row, by) == [j \in DOMAIN by |-> row[by[j]]]

\* groupby drops a row with a missing value in a key column
HasKey(row, by) == \A j \in DOMAIN by : row[by[j]] # Nothing

\* groupby keeping the rows with a missing key (dropna=False)
GroupedRows_KeepMissing(df, by) == DOMAIN df

\* the rows groupby counts: with the default dropna=True, those with a key
GroupedRows(df, by) == {i \in DOMAIN df : HasKey(df[i], by)}

\* df.groupby(by).size(): key -> number of rows
GroupSize(df, by) ==
    LET kept == GroupedRows(df, by)
        keys == {GroupKey(df[i], by) : i \in kept}
    IN  [k \in keys |-> Cardinality({i \in kept : GroupKey(df[i], by) = k})]

InitTime ==
    /\ tm_cells \in TimeColumns
    /\ tm_pc = "read"
    /\ tm_df = <<>>
    /\ purchases_by_time = <<>>
    /\ time_day_df = <<>>
    /\ time_day_year_df = <<>>

\* lines 257-259: read the file and parse the created_at column
ReadOrders ==
    /\ tm_pc = "read"
    /\ tm_df' = [i \in DOMAIN tm_cells |-> [created_at |-> ToDatetime(tm_cells[i])]]
    /\ tm_pc' = "analyze"
    /\ UNCHANGED <<tm_cells, purchases_by_time, time_day_df, time_day_year_df>>

\* line 270: analyze_time_of_day(orders_df), lines 64-86
analyze_time_of_day ==
    /\ tm_pc = "analyze"
    /\ LET df == [i \in DOMAIN tm_df |-> WithTimeColumns(tm_df[i])] IN
        /\ tm_df' = df
        /\ purchases_by_time' = GroupSize(df, <<"time_et">>)
        /\ time_day_df' = GroupSize(df, <<"day_of_week", "time_et">>)
        /\ time_day_year_df' = GroupSize(df, <<"year_et", "day_of_week", "time_et">>)
    /\ tm_pc' = "done"
    /\ UNCHANGED tm_cells

-----------------------------------------------------------------------------
(* The specifications *)

\* the parts of the state a specification does not run
IdleFetch ==
    /\ location_id = "ZE934VV8RCWGF"
    /\ begin_time = None
    /\ end_time = None
    /\ requests = <<>>
    /\ responses = <<>>
    /\ orders = <<>>
    /\ cursor = None
    /\ log = <<>>
    /\ pc = "idle"
    /\ fault = None

IdleLookup ==
    /\ lk_pc = "idle"
    /\ lk_responses = <<>>
    /\ lk_branch = <<>>
    /\ lk_log = <<>>
    /\ lk_results = <<>>
    /\ lk_fault = None

IdleFlatten ==
    /\ fl_orders = <<>>
    /\ fl_i = 0
    /\ records = <<>>
    /\ transactions = <<>>
    /\ fl_fault = None

IdlePairs ==
    /\ pr_transactions = <<>>
    /\ pr_permuted = <<>>
    /\ pr_i = 0
    /\ item_pairs = EmptyCounter
    /\ item_pairs_permuted = EmptyCounter
    /\ set_order = <<>>

IdleStats ==
    /\ orders_df = <<>>
    /\ st_pc = "idle"
    /\ st_g = 0
    /\ st_item_pairs = EmptyCounter
    /\ pairs_raw = <<>>
    /\ pairs_df = <<>>
    /\ pairs_df_latte = <<>>
    /\ pairs_df_non_latte = <<>>

IdleTime ==
    /\ tm_cells = <<>>
    /\ tm_pc = "idle"
    /\ tm_df = <<>>
    /\ purchases_by_time = <<>>
    /\ time_day_df = <<>>
    /\ time_day_year_df = <<>>

\* retrieve_all_orders against every fetch stub
Init == InitFetch /\ IdleLookup /\ IdleFlatten /\ IdlePairs /\ IdleStats /\ IdleTime

Next ==
    \/ SearchOrders /\ UNCHANGED <<lookupVars, flatVars, pairVars, statVars, timeVars>>

Spec == Init /\ [][Next]_vars

\* the three lookups of the script against every fetch stub
InitLookups == InitLookup /\ IdleFetch /\ IdleFlatten /\ IdlePairs /\ IdleStats /\ IdleTime

NextLookups ==
    \/ RetrieveCustomers /\ UNCHANGED <<fetchVars, flatVars, pairVars, statVars, timeVars>>
    \/ RetrievePayments /\ UNCHANGED <<fetchVars, flatVars, pairVars, statVars, timeVars>>
    \/ GetPayment /\ UNCHANGED <<fetchVars, flatVars, pairVars, statVars, timeVars>>
    \/ GetOrder /\ UNCHANGED <<fetchVars, flatVars, pairVars, statVars, timeVars>>

SpecLookup == InitLookups /\ [][NextLookups]_vars

\* orders_to_dataframe on every list of orders
InitFlattens == InitFlatten /\ IdleFetch /\ IdleLookup /\ IdlePairs /\ IdleStats /\ IdleTime

NextFlatten ==
    \/ FlattenOrder /\ UNCHANGED <<fetchVars, lookupVars, pairVars, statVars, timeVars>>

SpecFlatten == InitFlattens /\ [][NextFlatten]_vars

\* extract_order_items on every list of orders
InitExtracts == InitExtract /\ IdleFetch /\ IdleLookup /\ IdlePairs /\ IdleStats /\ IdleTime

NextExtract ==
    \/ ExtractOrder /\ UNCHANGED <<fetchVars, lookupVars, pairVars, statVars, timeVars>>

SpecExtract == InitExtracts /\ [][NextExtract]_vars

\* the pair counter on every list of transactions
InitPairCount == InitPairs /\ IdleFetch /\ IdleLookup /\ IdleFlatten /\ IdleStats /\ IdleTime

NextPairCount ==
    \/ CountTransaction /\ UNCHANGED <<fetchVars, lookupVars, flatVars, statVars, timeVars>>

SpecPairs == InitPairCount /\ [][NextPairCount]_vars

\* the pair statistics of stats.py on every file of rows
InitPairStats ==
    /\ InitStats
    /\ IdleFetch /\ IdleLookup /\ IdleFlatten /\ IdleTime
    /\ pr_transactions = <<>>
    /\ pr_permuted = <<>>
    /\ pr_i = 0
    /\ item_pairs = EmptyCounter
    /\ item_pairs_permuted = EmptyCounter
    /\ set_order = <<>>

StatsFrame ==
    UNCHANGED <<fetchVars, lookupVars, flatVars, pr_transactions, pr_permuted,
                pr_i, item_pairs, item_pairs_permuted, timeVars>>

NextPairStats ==
    \/ AnalyzeGroup /\ StatsFrame
    \/ ReturnPairs /\ StatsFrame
    \/ RelabelPairs /\ StatsFrame
    \/ SplitPairs /\ StatsFrame

SpecStats == InitPairStats /\ [][NextPairStats]_vars

\* analyze_time_of_day on every file of rows
InitTimes ==
    /\ InitTime
    /\ IdleFetch /\ IdleLookup /\ IdleFlatten /\ IdlePairs /\ IdleStats

TimeFrame == UNCHANGED <<fetchVars, lookupVars, flatVars, pairVars, statVars>>

NextTime ==
    \/ ReadOrders /\ TimeFrame
    \/ analyze_time_of_day /\ TimeFrame

SpecTime == InitTimes /\ [][NextTime]_vars

-----------------------------------------------------------------------------
(* The fetch stub of a run is the sequence of answers it gives, call by    *)
(* call; responses holds the answers given so far, so every run against a  *)
(* stub passes through the states whose responses are that stub's prefixes.*)

SuccessWithCursor(r) ==
    r.status_code = 200 /\ Truthy(Get(r.json, "cursor", None))

SuccessNoCursor(r) ==
    r.status_code = 200 /\ ~Truthy(Get(r.json, "cursor", None))

Is2xx(status) == status \in 200..299

RECURSIVE ConcatPages(_)
\* the orders of pages 1..j, concatenated in call order
ConcatPages(j) ==
    IF j = 0 THEN <<>>
    ELSE ConcatPages(j - 1) \o Get(responses[j].json, "orders", <<>>)

\* C1: against a stub whose calls 1..n-1 return 200 with a non-empty cursor
\* and whose call n returns 200 with no cursor, exactly n calls are made and
\* the result is the concatenation of pages 1..n in call order, whatever
\* the pages hold (pages with zero orders included): no call of such a run
\* raises, the run goes on after each of the calls 1..n-1 and has returned
\* after call n.
C1_PaginationTerminates ==
    LET n == Len(responses) IN
    /\ (\A i \in 1..n : SuccessWithCursor(responses[i]))
          => /\ fault = None
             /\ pc = "loop"
             /\ Len(requests) = n
             /\ orders = ConcatPages(n)
    /\ (/\ n >= 1
        /\ \A i \in 1..(n - 1) : SuccessWithCursor(responses[i])
        /\ SuccessNoCursor(responses[n]))
          => /\ fault = None
             /\ pc = "returned"
             /\ Len(requests) = n
             /\ orders = ConcatPages(n)

\* C2: against a stub whose calls 1..k-1 succeed with a cursor and whose
\* call k returns a non-success status, the loop stops at call k, the result
\* is the concatenation of pages 1..k-1 (empty when k = 1) and no exception
\* escapes, whatever the successful pages hold.
C2_ErrorAbortsWithPartialResult ==
    LET k == Len(responses) IN
    /\ (\A i \in 1..k : SuccessWithCursor(responses[i])) => fault = None
    /\ (/\ k >= 1
        /\ \A i \in 1..(k - 1) : SuccessWithCursor(responses[i])
        /\ ~Is2xx(responses[k].status_code))
          => /\ fault = None
             /\ pc = "returned"
             /\ Len(requests) = k
             /\ orders = ConcatPages(k - 1)

\* Both hold of every run whose first page holds an order: the accumulator
\* is then never empty at line 115.
FirstPageHoldsAnOrder ==
    responses # <<>> => Get(responses[1].json, "orders", <<>>) # <<>>

C1_C2_WhenFirstPageHoldsAnOrder ==
    FirstPageHoldsAnOrder
        => C1_PaginationTerminates /\ C2_ErrorAbortsWithPartialResult

\* C10: on every request the program issues, the GET lookups included, a
\* non-2xx status is handled by logging and a normal return of the
\* operation, never by a fault, and every 2xx status is treated as success.
C10_NonSuccessIsLoggedNotFatal ==
    \A i \in 1..Len(lk_responses) :
        LET status == lk_responses[i].status_code IN
        /\ ~Is2xx(status)
              => /\ lk_branch[i] = "error"
                 /\ i = Len(lk_responses) => lk_fault = None /\ lk_pc # "raised"
        /\ Is2xx(status) => lk_branch[i] = "success"

-----------------------------------------------------------------------------
(* The flattener *)

Max(a, b) == IF a >= b THEN a ELSE b

LineItems(order) == Get(order, "line_items", <<>>)

\* the minor units a decimal number of major units stands for
Minor(m) == m.units * 100 + m.cents

\* total_money.amount of an order or a line item, 0 when missing
AmountOf(d) == Get(Get(d, "total_money", EmptyDict), "amount", 0)

HasAmount(d) == "total_money" \in DOMAIN d /\ "amount" \in DOMAIN d.total_money

RECURSIVE RowsBefore(_)
\* the rows that the orders before the k-th account for: max(1, N) each
RowsBefore(k) ==
    IF k = 1 THEN 0
    ELSE RowsBefore(k - 1) + Max(1, Len(LineItems(fl_orders[k - 1])))

\* C3: every order with N >= 1 line items gives exactly N rows, one per line
\* item in line-item order, and every order with zero (or no) line items
\* gives exactly one row, whose item_id, item_name, variation_name, quantity
\* and base_price are null and whose total_money is the order's own
\* total_money.amount divided by 100 (0 when the money field is missing); the
\* rows of the orders follow one another in order sequence.
C3_RowsPerOrder ==
    /\ Len(records) = RowsBefore(fl_i + 1)
    /\ \A k \in 1..fl_i :
        LET order == fl_orders[k]
            items == LineItems(order)
            first == RowsBefore(k)
        IN  /\ \A j \in 1..Max(1, Len(items)) :
                  records[first + j].order_id = order.id
            /\ \A j \in 1..Len(items) :
                  /\ records[first + j].item_name = items[j].name
                  /\ records[first + j].quantity = Get(items[j], "quantity", None)
            /\ items = <<>> =>
                  LET row == records[first + 1] IN
                  /\ row.item_id = None
                  /\ row.item_name = None
                  /\ row.variation_name = None
                  /\ row.quantity = None
                  /\ row.base_price = Nothing
                  /\ Len(row.total_money) = 1
                  /\ row.total_money[1].cents \in 0..99
                  /\ Minor(row.total_money[1]) = AmountOf(order)

\* C3's case: orders without line items (one with an amount, one without
\* the money field) and an order with two line items have been flattened.
C3_Witness ==
    /\ fl_i = 2
    /\ \E k \in 1..2 : LineItems(fl_orders[k]) = <<>> /\ HasAmount(fl_orders[k])
    /\ \E k \in 1..2 : Len(LineItems(fl_orders[k])) = 2
    /\ Len(records) = 3

C3_WitnessNoMoney ==
    /\ fl_i >= 1
    /\ LineItems(fl_orders[1]) = <<>>
    /\ "total_money" \notin DOMAIN fl_orders[1]

\* decimal addition of two numbers of major units
AddMajor(x, y) ==
    LET c == x.cents + y.cents IN
    [units |-> x.units + y.units + c \div 100, cents |-> c % 100]

RECURSIVE SumRowTotals(_, _)
\* the sum of total_money over rows first+1 .. first+n
SumRowTotals(first, n) ==
    IF n = 0 THEN [units |-> 0, cents |-> 0]
    ELSE AddMajor(SumRowTotals(first, n - 1), records[first + n].total_money[1])

RECURSIVE SumItemAmounts(_)
\* the sum of the line items' own total_money.amount, a missing one being 0
SumItemAmounts(items) ==
    IF items = <<>> THEN 0
    ELSE AmountOf(Head(items)) + SumItemAmounts(Tail(items))

\* C9 as stated: for every order with N >= 1 line items (the order and each
\* line item carrying its total_money.amount), the total_money of its N rows
\* add up to the order's own total, total_money.amount divided by 100.  Both sides are exact decimals here, so
\* "within conversion rounding" is equality.
C9_RowTotalsSumToOrderTotal ==
    \A k \in 1..fl_i :
        LET order == fl_orders[k]
            items == LineItems(order)
        IN  (/\ items # <<>>
             /\ HasAmount(order)
             /\ \A j \in 1..Len(items) : HasAmount(items[j]))
               => SumRowTotals(RowsBefore(k), Len(items)) = ToMajor(AmountOf(order))

\* C9 amended: for every order with N >= 1 line items, the total_money of its
\* N rows add up to the sum of the line items' own total_money.amount (a
\* missing one counting 0) divided by 100; the order's own total is not read,
\* and the rows add up to it exactly when the line items' amounts do.
C9_RowTotalsSumToLineItemTotals ==
    \A k \in 1..fl_i :
        LET order == fl_orders[k]
            items == LineItems(order)
            sum == SumRowTotals(RowsBefore(k), Len(items))
        IN  items # <<>> =>
               /\ sum.cents \in 0..99
               /\ Minor(sum) = SumItemAmounts(items)
               /\ (sum = ToMajor(AmountOf(order)))
                     <=> (SumItemAmounts(items) = AmountOf(order))

\* C9's case: an order with two line items and an amount of its own has been
\* flattened, and its rows do not add up to its own total.
C9_Witness ==
    /\ fl_i >= 1
    /\ Len(LineItems(fl_orders[1])) = 2
    /\ HasAmount(fl_orders[1])
    /\ SumRowTotals(0, 2) # ToMajor(AmountOf(fl_orders[1]))

-----------------------------------------------------------------------------
(* The transaction lists *)

\* a line item that carries a name and an integer quantity
NamedWithQuantity(item) ==
    /\ "name" \in DOMAIN item
    /\ "quantity" \in DOMAIN item
    /\ item.quantity \in IntLiterals

RECURSIVE Expansion(_)
\* each line item's name repeated quantity times, in line-item order
Expansion(items) ==
    IF items = <<>> THEN <<>>
    ELSE Repeat(Head(items).name, IntOf(Head(items).quantity))
            \o Expansion(Tail(items))

RECURSIVE ExpectedTransactions(_)
\* the non-empty expansions of orders 1..k, in order sequence
ExpectedTransactions(k) ==
    IF k = 0 THEN <<>>
    ELSE LET e == Expansion(LineItems(fl_orders[k])) IN
         IF e = <<>> THEN ExpectedTransactions(k - 1)
         ELSE Append(ExpectedTransactions(k - 1), e)

\* C4: every order whose line items carry a name and an integer quantity
\* gives one list, each line item's name repeated quantity times in
\* line-item order; an order whose expansion is empty gives no list; the
\* lists appear in order sequence.
C4_TransactionLists ==
    (\A k \in 1..fl_i :
        \A j \in 1..Len(LineItems(fl_orders[k])) :
            NamedWithQuantity(LineItems(fl_orders[k])[j]))
      => /\ fl_fault = None
         /\ transactions = ExpectedTransactions(fl_i)

\* With line items that also carry the key item_name, equal to name, the
\* function does what C4 says.
C4_WhenItemNameIsPresent ==
    (\A k \in 1..fl_i :
        \A j \in 1..Len(LineItems(fl_orders[k])) :
            LET item == LineItems(fl_orders[k])[j] IN
            /\ NamedWithQuantity(item)
            /\ "item_name" \in DOMAIN item
            /\ item.item_name = item.name)
      => /\ fl_fault = None
         /\ transactions = ExpectedTransactions(fl_i)

-----------------------------------------------------------------------------
(* The pair counter *)

\* the transactions among the first k of a list that hold both a and b
OrdersWithBoth(lists, k, a, b) ==
    {n \in 1..k : a \in Range(lists[n]) /\ b \in Range(lists[n])}

\* no pair of names is held under both (a, b) and (b, a)
OneKeyPerPair(counter) ==
    \A key \in Keys(counter) : <<key[2], key[1]>> \notin Keys(counter)

\* C5: pair counting is keyed by the unordered pair: permuting the item
\* list inside one order leaves the global counts unchanged, and no pair of
\* names is held under the two keys (a, b) and (b, a), whatever order each
\* order's set of distinct names is enumerated in.
C5_CountsKeyedByUnorderedPair ==
    /\ SameCounts(item_pairs_permuted, item_pairs)
    /\ OneKeyPerPair(item_pairs)

\* C6: for every pair of distinct names, the count held for the pair is the
\* number of orders in which both names occur at least once; no pair of a
\* name with itself is counted; no count exceeds the number of orders.
C6_CountIsOrdersWithBoth ==
    /\ \A key \in Keys(item_pairs) :
         /\ key[1] # key[2]
         /\ CountOf(item_pairs, key) <= pr_i
         /\ CountOf(item_pairs, key)
               = Cardinality(OrdersWithBoth(pr_transactions, pr_i, key[1], key[2]))
    /\ \A a, b \in ItemNames :
         (a # b /\ OrdersWithBoth(pr_transactions, pr_i, a, b) # {})
            => (<<a, b>> \in Keys(item_pairs) \/ <<b, a>> \in Keys(item_pairs))

\* What the counter does keep: the counts held under (a, b) and (b, a),
\* added up, are the number of orders with both names, so repeated names in
\* an order raise no count and no name is paired with itself.
C6_SumOverBothKeys ==
    \A a, b \in ItemNames :
        IF a = b
        THEN <<a, b>> \notin Keys(item_pairs)
        ELSE CountOf(item_pairs, <<a, b>>) + CountOf(item_pairs, <<b, a>>)
                = Cardinality(OrdersWithBoth(pr_transactions, pr_i, a, b))

\* the groups among the first k of the file that hold both a and b
GroupsWithBoth(k, a, b) ==
    {n \in 1..k : {a, b} \subseteq Range(GroupNames(orders_df, GroupKeys[n]))}

\* C6 for analyze_pairs: the count held for a pair is the number of orders
\* (groups of rows with one order_id) in which both names occur.
C6_AnalyzePairsCountIsOrdersWithBoth ==
    /\ \A key \in Keys(st_item_pairs) :
         /\ key[1] # key[2]
         /\ CountOf(st_item_pairs, key)
               = Cardinality(GroupsWithBoth(st_g, key[1], key[2]))
    /\ \A a, b \in ItemNames :
         (a # b /\ GroupsWithBoth(st_g, a, b) # {})
            => (<<a, b>> \in Keys(st_item_pairs) \/ <<b, a>> \in Keys(st_item_pairs))

-----------------------------------------------------------------------------
(* The pair table *)

NamesOf(row) == {row.pair[1], row.pair[2]}

\* the position in table of the row that carries an index label
PositionOf(table, label) == CHOOSE i \in DOMAIN table : table[i].index = label

Labels(table) == {table[i].index : i \in DOMAIN table}

\* the rows of part are rows of table, each once, in table's order
InTableOrder(part, table) ==
    /\ \A i \in DOMAIN part : part[i] \in Range(table)
    /\ \A i, j \in DOMAIN part :
         i < j => PositionOf(table, part[i].index) < PositionOf(table, part[j].index)

\* C7: split_latte_pairs partitions the pair table into the rows whose pair
\* contains the anchor and the rows whose pair does not: every row of the
\* table is in exactly one of the two outputs, nothing is lost or doubled,
\* and each output keeps its rows in the table's order.
C7_SplitIsPartition ==
    st_pc = "done" =>
        /\ Labels(pairs_df_latte) \cap Labels(pairs_df_non_latte) = {}
        /\ Range(pairs_df_latte) \cup Range(pairs_df_non_latte) = Range(pairs_df)
        /\ Len(pairs_df_latte) + Len(pairs_df_non_latte) = Len(pairs_df)
        /\ \A row \in Range(pairs_df_latte) : Anchor \in NamesOf(row)
        /\ \A row \in Range(pairs_df_non_latte) : Anchor \notin NamesOf(row)
        /\ InTableOrder(pairs_df_latte, pairs_df)
        /\ InTableOrder(pairs_df_non_latte, pairs_df)

\* C7's case: a table with rows of both kinds has been split, two rows
\* going to one output.
C7_Witness ==
    /\ st_pc = "done"
    /\ Len(pairs_df_latte) >= 2
    /\ Len(pairs_df_non_latte) >= 1

\* C8: applying ensure_latte_first to every row is a pure relabeling: the
\* number of rows is unchanged, each row keeps its count, its label and its
\* unordered pair of names, so distinct pairs stay distinct and no row is
\* merged or split; every pair that contains the anchor then has it first,
\* and a pair without the anchor is unchanged.
C8_RelabelIsPure ==
    st_pc \in {"split", "done"} =>
        /\ Len(pairs_df) = Len(pairs_raw)
        /\ \A i \in DOMAIN pairs_df :
             /\ pairs_df[i].count = pairs_raw[i].count
             /\ pairs_df[i].index = pairs_raw[i].index
             /\ Len(pairs_df[i].pair) = 2
             /\ NamesOf(pairs_df[i]) = NamesOf(pairs_raw[i])
             /\ Anchor \in NamesOf(pairs_raw[i]) => pairs_df[i].pair[1] = Anchor
             /\ Anchor \notin NamesOf(pairs_raw[i])
                   => pairs_df[i].pair = pairs_raw[i].pair
        /\ \A i, j \in DOMAIN pairs_df :
             NamesOf(pairs_raw[i]) # NamesOf(pairs_raw[j])
                => NamesOf(pairs_df[i]) # NamesOf(pairs_df[j])

\* C8's case: the table held a pair with the anchor second, a pair with the
\* anchor first and a pair without it, and has been relabeled.
C8_Witness ==
    /\ st_pc = "split"
    /\ \E i \in DOMAIN pairs_raw : pairs_raw[i].pair[2] = Anchor
    /\ \E i \in DOMAIN pairs_raw : pairs_raw[i].pair[1] = Anchor
    /\ \E i \in DOMAIN pairs_raw : Anchor \notin NamesOf(pairs_raw[i])

-----------------------------------------------------------------------------
(* The time-of-day counts *)

\* the rows of the file whose created_at parses
ParseableRows == {i \in DOMAIN tm_cells : IsIso8601(tm_cells[i])}

RECURSIVE SumCounts(_)
\* the counts of a grouping added up
SumCounts(grouping) ==
    IF DOMAIN grouping = {} THEN 0
    ELSE LET k == CHOOSE x \in DOMAIN grouping : TRUE
         IN  grouping[k]
               + SumCounts([x \in DOMAIN grouping \ {k} |-> grouping[x]])

\* a grouping holds the keys of the parseable rows and no other, counts each
\* parseable row once under its key, and its counts add up to their number
CountsParseableRows(grouping, by) ==
    /\ DOMAIN grouping = {GroupKey(tm_df[i], by) : i \in ParseableRows}
    /\ \A k \in DOMAIN grouping :
          /\ \A j \in DOMAIN k : k[j] # Nothing
          /\ grouping[k]
               = Cardinality({i \in ParseableRows : GroupKey(tm_df[i], by) = k})
    /\ SumCounts(grouping) = Cardinality(ParseableRows)

\* C11: analyze_time_of_day counts exactly the rows whose created_at parsed:
\* a row whose timestamp does not parse is in none of the three groupings
\* (by HH:MM; by day of week and HH:MM; by year, day of week and HH:MM) and
\* does not stop the run, every row whose timestamp parses is counted once
\* in each, and the counts of each grouping add up to the number of
\* parseable rows.
C11_CountsParseableRows ==
    /\ tm_pc = "analyze" => ENABLED analyze_time_of_day
    /\ tm_pc = "done" =>
          /\ CountsParseableRows(purchases_by_time, <<"time_et">>)
          /\ CountsParseableRows(time_day_df, <<"day_of_week", "time_et">>)
          /\ CountsParseableRows(time_day_year_df,
                                 <<"year_et", "day_of_week", "time_et">>)

\* C11's case: a file of an empty cell, a timestamp of July 2023 and one of
\* January 2024 that fall on the same weekday and minute in US/Eastern has
\* been analyzed: one key of count 2 by time and by day, two keys by year
C11_Witness ==
    /\ tm_pc = "done"
    /\ Len(tm_cells) = 3
    /\ \E i \in DOMAIN tm_cells : tm_cells[i] = Nothing
    /\ Cardinality(ParseableRows) = 2
    /\ \E k \in DOMAIN purchases_by_time : purchases_by_time[k] = 2
    /\ \E k \in DOMAIN time_day_df : time_day_df[k] = 2
    /\ Cardinality(DOMAIN time_day_year_df) = 2

-----------------------------------------------------------------------------
(* The requests of the fetcher *)

\* an argument of the call that was given
Given(t) == t # None

HasDateFilter(body) == "query" \in DOMAIN body

\* the date-range filter of begin_time and end_time
DateFilter ==
    [filter |-> [date_time_filter |-> [created_at |->
        [start_at |-> begin_time, end_at |-> end_time]]]]

\* every request carries the location filter and page size 500
SameLocationAndLimit ==
    \A i \in DOMAIN requests :
        /\ requests[i].location_ids = <<location_id>>
        /\ requests[i].limit = 500

\* the first request carries no cursor, request i+1 the cursor of response i
CursorChain ==
    /\ requests # <<>> => "cursor" \notin DOMAIN requests[1]
    /\ \A i \in 1..(Len(requests) - 1) :
          /\ "cursor" \in DOMAIN responses[i].json
          /\ "cursor" \in DOMAIN requests[i + 1]
          /\ requests[i + 1].cursor = responses[i].json.cursor

\* the date-range filter is on every request when both times are given and
\* on none when neither is
FilterWhenBothOrNeither ==
    /\ (Given(begin_time) /\ Given(end_time))
          => \A i \in DOMAIN requests :
                HasDateFilter(requests[i]) /\ requests[i].query = DateFilter
    /\ (~Given(begin_time) /\ ~Given(end_time))
          => \A i \in DOMAIN requests : ~HasDateFilter(requests[i])

\* a call given one of the two times sends no request
OneSidedRangeIsRejected ==
    (Given(begin_time) # Given(end_time)) => requests = <<>>

\* C12: every request of one run carries the same location filter and page
\* size 500; the first request carries no cursor and request i+1 carries
\* exactly the cursor response i returned; the date-range filter is on every
\* request when both begin_time and end_time are given and on none when
\* neither is; a call that gives only one of the two is not accepted, neither
\* as a filtered nor as a silently unfiltered query.
C12_RequestsCarryFilterAndCursor ==
    /\ SameLocationAndLimit
    /\ CursorChain
    /\ FilterWhenBothOrNeither
    /\ OneSidedRangeIsRejected

\* All of it but the rejection holds of every run, and all of it holds of the
\* runs given both times or neither.
C12_ExceptOneSidedRange ==
    /\ SameLocationAndLimit
    /\ CursorChain
    /\ FilterWhenBothOrNeither
    /\ (Given(begin_time) = Given(end_time)) => C12_RequestsCarryFilterAndCursor

\* what the code does with a one-sided range: the requests go out unfiltered
C12_OneSidedRangeIsSentUnfiltered ==
    (Given(begin_time) # Given(end_time))
        => \A i \in DOMAIN requests : ~HasDateFilter(requests[i])

====
